---------------------------- MODULE Spec2Model ----------------------------
(***************************************************************************)
(* TradeLite Pro backend: the analytics services and the request handlers  *)
(* in front of them.                                                       *)
(*                                                                         *)
(*   SpecFeedback   app/services/ai_service.py, one call of                *)
(*                  get_educational_feedback after another, a step per     *)
(*                  tier of the fallback chain                             *)
(*   SpecSentiment  app/services/sentiment_analysis_service.py             *)
(*   SpecAnomaly    app/services/anomaly_detection_service.py              *)
(*   SpecCache      app/api/ai.py, the three handlers in front of redis    *)
(*   SpecGenerate   app/api/simulations.py, generate_mock_data, a step per *)
(*                  round of its loop                                      *)
(*   SpecSimulations app/api/simulations.py, create_simulation and         *)
(*                  get_simulation in front of redis                       *)
(*   SpecAuth       app/api/auth.py, the four handlers in front of the     *)
(*                  identity provider                                      *)
(*                                                                         *)
(* Text is modelled as sequences of tokens: a provider response is the     *)
(* list of its blank-line separated sections, a section the list of its    *)
(* lines, a line the list of its tokens (a marker word such as "Key Point" *)
(* is one token, "-" and " " are characters).                              *)
(***************************************************************************)
EXTENDS Integers, Sequences, FiniteSets, TLC

VARIABLES
    \* ---- ai_service.py
    DEEPSEEK_API_KEY,   \* settings.DEEPSEEK_API_KEY is non-empty
    OPENAI_API_KEY,     \* settings.OPENAI_API_KEY is non-empty
    pc,                 \* position inside get_educational_feedback
    request,            \* the arguments of the running call
    attempts,           \* history: the tiers entered by the running call, in order
    raised,             \* history: the tiers of the running call that raised
    content,            \* history: the text the answering provider returned
    result,             \* what the call returned to its caller
    \* ---- sentiment_analysis_service.py
    text,               \* the text of the request, word by word
    analysis,           \* what analyze_sentiment made of it, with its two counts
    \* ---- anomaly_detection_service.py
    data,               \* the series of the request
    window_size,        \* the window size of the request
    report,             \* what detect_anomalies returned
    \* ---- api/ai.py
    redis,              \* the live cache entries, key -> stored value
    served,             \* how many requests the handlers have served
    lastRequest,        \* history: the latest request
    lastResponse,       \* history: what the handler answered to it
    lastFault,          \* history: the redis call that raised while serving it
    \* ---- api/simulations.py: generate_mock_data
    gen_pc,             \* position inside generate_mock_data
    simulation,         \* the arguments of the running call
    gen_i,              \* the loop index i
    current_price,      \* the price of the random walk, in thousandths
    sim_data,           \* the local list `data`: the points appended so far
    moves,              \* history: the rounds of the call whose draw moved the price
    gen_performance,    \* the local `performance` picked for the strategy, in 1/100000
    sim_result,         \* the SimulationResult the call returned
    \* ---- api/simulations.py: create_simulation, get_simulation
    sim_redis,          \* the live cache entries, key -> stored value
    created,            \* history: id -> the result create_simulation returned
    simRequest,         \* history: the latest request
    simResponse,        \* history: what the handler answered to it
    \* ---- api/auth.py
    authServed,         \* how many requests the handlers have served
    authRequest,        \* history: the latest request
    authResponse        \* history: what the handler answered to it

fbVars == <<DEEPSEEK_API_KEY, OPENAI_API_KEY, pc, request, attempts, raised, content, result>>

saVars == <<text, analysis>>

adVars == <<data, window_size, report>>

apiVars == <<redis, served, lastRequest, lastResponse, lastFault>>

genVars == <<gen_pc, simulation, gen_i, current_price, sim_data, moves, gen_performance,
             sim_result>>

simVars == <<sim_redis, created, simRequest, simResponse>>

authVars == <<authServed, authRequest, authResponse>>

vars == <<fbVars, saVars, adVars, apiVars, genVars, simVars, authVars>>

\* what the steps of one service leave alone
notFbVars == <<saVars, adVars, apiVars, genVars, simVars, authVars>>
notSaVars == <<fbVars, adVars, apiVars, genVars, simVars, authVars>>
notAdVars == <<fbVars, saVars, apiVars, genVars, simVars, authVars>>
notApiVars == <<pc, request, attempts, raised, content, result, saVars, adVars,
                genVars, simVars, authVars>>
notGenVars == <<fbVars, saVars, adVars, apiVars, simVars, authVars>>
notSimVars == <<fbVars, saVars, adVars, apiVars, genVars, authVars>>
notAuthVars == <<fbVars, saVars, adVars, apiVars, genVars, simVars>>

(***************************************************************************)
(* Bounds                                                                  *)
(***************************************************************************)
\* sections in one provider response
MaxSections == 2
\* words a client adds to a text
MaxWords == 3
\* points in a series
MaxSeries == 4
\* the largest window size a client asks for
MaxWindow == 3
\* requests the handlers of api/ai.py serve in one run
MaxRequests == 3

(***************************************************************************)
(* Sequence helpers                                                        *)
(***************************************************************************)
\* python: seq[:n]
Take(seq, n) == SubSeq(seq, 1, IF Len(seq) < n THEN Len(seq) ELSE n)

\* python: seq[1:]
Rest(seq) == IF seq = <<>> THEN <<>> ELSE Tail(seq)

Range(seq) == {seq[i] : i \in DOMAIN seq}

RECURSIVE SeqsUpTo(_, _)
\* the sequences over S of length 1..n
SeqsUpTo(S, n) ==
    IF n = 0 THEN {}
    ELSE LET shorter == SeqsUpTo(S, n - 1)
         IN  {<<x>> : x \in S} \cup shorter \cup {Append(s, x) : s \in shorter, x \in S}

(***************************************************************************)
(* The state of each service before its first request                      *)
(***************************************************************************)
NoContent == <<>>

NoRequest == [asset |-> "", strategy |-> "", timeframe |-> 0,
              performance |-> [roi |-> [kind |-> "absent", val |-> 0]]]

NoResult == [feedback |-> <<>>, key_points |-> <<>>, improvement_suggestions |-> <<>>]

FeedbackIdle ==
    /\ pc = "idle"
    /\ request = NoRequest
    /\ attempts = <<>>
    /\ raised = {}
    /\ content = NoContent
    /\ result = [tier |-> "none", value |-> NoResult]

\* the number n/d
Fraction(n, d) == [num |-> n, den |-> d]

NoAnalysis == [positive_count |-> 0, negative_count |-> 0, score |-> Fraction(0, 1),
               sentiment |-> "none", explanation |-> <<>>]

SentimentIdle ==
    /\ text = <<>>
    /\ analysis = NoAnalysis

NoReport == [anomalies |-> <<>>, scores |-> <<>>, threshold |-> 0]

AnomalyIdle ==
    /\ data = <<>>
    /\ window_size = 20
    /\ report = NoReport

NoApiRequest == [endpoint |-> "none"]

NoApiResponse == [status |-> 0, source |-> "none"]

ApiIdle ==
    /\ redis = <<>>
    /\ served = 0
    /\ lastRequest = NoApiRequest
    /\ lastResponse = NoApiResponse
    /\ lastFault = "none"

\* a value of type Optional[float]
None == [some |-> FALSE, val |-> 0]
Some(v) == [some |-> TRUE, val |-> v]

NoSimulation == [asset |-> "", strategy |-> "", timeframe |-> 0, initial_capital |-> 0]

NoSimulationResult ==
    [id |-> "", user_id |-> "", asset |-> "", strategy |-> "", timeframe |-> 0,
     initial_capital |-> 0, final_capital |-> 0, roi |-> 0, data |-> <<>>, created_at |-> ""]

GenerateIdle ==
    /\ gen_pc = "idle"
    /\ simulation = NoSimulation
    /\ gen_i = 0
    /\ current_price = 0
    /\ sim_data = <<>>
    /\ moves = 0
    /\ gen_performance = 0
    /\ sim_result = NoSimulationResult

NoSimRequest == [endpoint |-> "none"]

NoSimResponse == [status |-> 0]

SimulationsIdle ==
    /\ sim_redis = <<>>
    /\ created = <<>>
    /\ simRequest = NoSimRequest
    /\ simResponse = NoSimResponse

NoAuthRequest == [endpoint |-> "none"]

NoAuthResponse == [status |-> 0]

AuthIdle ==
    /\ authServed = 0
    /\ authRequest = NoAuthRequest
    /\ authResponse = NoAuthResponse

(***************************************************************************)
(* ai_service.py: parsing a provider response                              *)
(***************************************************************************)
\* str.lower() on a token: the tokens of the model that hold capitals
Lower(tok) ==
    CASE tok = "Key Point"   -> "key point"
      [] tok = "Improvement" -> "improvement"
      [] tok = "Suggestion"  -> "suggestion"
      [] tok = "Buy"         -> "buy"
      [] tok = "SELL"        -> "sell"
      [] tok = "The"         -> "the"
      [] tok = "Bearish"     -> "bearish"
      [] OTHER               -> tok

RECURSIVE LStrip(_, _)
LStrip(line, chars) ==
    IF line # <<>> /\ Head(line) \in chars THEN LStrip(Tail(line), chars) ELSE line

RECURSIVE RStrip(_, _)
RStrip(line, chars) ==
    IF line # <<>> /\ line[Len(line)] \in chars
    THEN RStrip(SubSeq(line, 1, Len(line) - 1), chars)
    ELSE line

\* str.strip(chars): the characters of chars removed from both ends
Strip(line, chars) == RStrip(LStrip(line, chars), chars)

\* `if p.strip()`: the line has something besides white space
NonBlank(line) == Strip(line, {" "}) # <<>>

\* `marker in section.lower()`
Contains(section, marker) ==
    \E i \in DOMAIN section : \E j \in DOMAIN section[i] : Lower(section[i][j]) = marker

\* [p.strip("- ") for p in section.split("\n")[1:] if p.strip()]
SectionItems(section) ==
    LET lines == Rest(section)
        F[i \in 0..Len(lines)] ==
            IF i = 0 THEN <<>>
            ELSE IF NonBlank(lines[i])
                 THEN Append(F[i - 1], Strip(lines[i], {"-", " "}))
                 ELSE F[i - 1]
    IN  F[Len(lines)]

\* the loop over the sections: [key_points, improvement_suggestions]
ExtractLists(sections) ==
    LET F[i \in 0..Len(sections)] ==
            IF i = 0 THEN [key_points |-> <<>>, improvement_suggestions |-> <<>>]
            ELSE LET acc == F[i - 1]
                     section == sections[i]
                 IN  IF Contains(section, "key point")
                     THEN [acc EXCEPT !.key_points = @ \o SectionItems(section)]
                     ELSE IF Contains(section, "improvement") \/ Contains(section, "suggestion")
                          THEN [acc EXCEPT !.improvement_suggestions = @ \o SectionItems(section)]
                          ELSE acc
    IN  F[Len(sections)]

DefaultKeyPoints ==
    << <<"Understanding market trends">>, <<"Risk management is essential">>,
       <<"Past performance is not indicative of future results">> >>

DefaultSuggestions ==
    << <<"Consider backtesting with different parameters">>,
       <<"Combine with other indicators for confirmation">> >>

\* ParseResponse without the [:5] and [:3] slices
ParseResponseUnlimited(sections) ==
    LET lists == ExtractLists(sections)
    IN  [feedback                |-> IF Len(sections) > 0 THEN sections[1] ELSE <<>>,
         key_points              |-> IF lists.key_points = <<>> THEN DefaultKeyPoints
                                     ELSE lists.key_points,
         improvement_suggestions |-> IF lists.improvement_suggestions = <<>>
                                     THEN DefaultSuggestions
                                     ELSE lists.improvement_suggestions]

\* the result a provider tier builds from the response text
ParseResponse(sections) ==
    LET lists == ExtractLists(sections)
        key_points == IF lists.key_points = <<>> THEN DefaultKeyPoints ELSE lists.key_points
        improvement_suggestions ==
            IF lists.improvement_suggestions = <<>> THEN DefaultSuggestions
            ELSE lists.improvement_suggestions
    IN  [feedback                |-> IF Len(sections) > 0 THEN sections[1] ELSE <<>>,
         key_points              |-> Take(key_points, 5),
         improvement_suggestions |-> Take(improvement_suggestions, 3)]


(***************************************************************************)
(* ai_service.py: the template tier                                        *)
(***************************************************************************)
KnownStrategies == {"sma_crossover", "ema_crossover", "macd", "rsi", "bollinger"}

\* performance.get('roi', default): a number, or the default when the key is absent
RoiGet(performance, default) ==
    IF performance.roi.kind = "absent" THEN default ELSE performance.roi

NumRoi(n) == [kind |-> "num", val |-> n]

\* f"{value}"
Format(v) ==
    CASE v.kind = "num"     -> ToString(v.val)
      [] v.kind = "text"    -> "n/a"
      [] v.kind = "unknown" -> "unknown"

\* the readable strategy name: {...}.get(strategy, strategy)
strategy_name(strategy) ==
    CASE strategy = "sma_crossover" -> "Simple Moving Average Crossover"
      [] strategy = "ema_crossover" -> "Exponential Moving Average Crossover"
      [] strategy = "macd"          -> "Moving Average Convergence Divergence (MACD)"
      [] strategy = "rsi"           -> "Relative Strength Index (RSI)"
      [] strategy = "bollinger"     -> "Bollinger Bands"
      [] OTHER                      -> strategy

\* the narrative every entry of strategy_templates opens with
Opening(article, label, asset, timeframe) ==
    <<"This simulation demonstrates ", article, label, " strategy applied to ", asset,
      " over ", ToString(timeframe), " days.">>

strategy_templates(asset, timeframe) ==
    [s \in KnownStrategies |->
        CASE s = "sma_crossover" ->
               [feedback |-> Opening("a ", "Simple Moving Average (SMA) Crossover", asset, timeframe)
                             \o <<" The strategy involves tracking two moving averages ...">>,
                key_points |-> <<
                    <<"SMA Crossover strategies work best in trending markets">>,
                    <<"The choice of SMA periods significantly impacts performance">>,
                    <<"This strategy typically lags behind price movements due to the nature of moving averages">>,
                    <<"False signals are common during sideways market conditions">> >>,
                improvement_suggestions |-> <<
                    <<"Consider adding a confirmation indicator like volume or RSI">>,
                    <<"Test different SMA period combinations to optimize for your asset">>,
                    <<"Implement a stop-loss strategy to manage downside risk">> >>]
          [] s = "ema_crossover" ->
               [feedback |-> Opening("an ", "Exponential Moving Average (EMA) Crossover", asset, timeframe)
                             \o <<" EMA crossover strategies are similar to SMA crossovers ...">>,
                key_points |-> <<
                    <<"EMA Crossover strategies respond faster to price changes than SMA strategies">>,
                    <<"The strategy is more sensitive to recent price movements">>,
                    <<"While more responsive, EMA crossovers can generate more false signals in volatile markets">>,
                    <<"The choice of EMA periods significantly impacts performance">> >>,
                improvement_suggestions |-> <<
                    <<"Consider using a price filter to reduce false signals">>,
                    <<"Test different EMA period combinations to find optimal settings">>,
                    <<"Combine with volatility indicators to avoid trading during choppy markets">> >>]
          [] s = "macd" ->
               [feedback |-> Opening("a ", "Moving Average Convergence Divergence (MACD)", asset, timeframe)
                             \o <<" MACD is a trend-following momentum indicator ...">>,
                key_points |-> <<
                    <<"MACD combines trend following and momentum in one indicator">>,
                    <<"Signal line crossovers are the primary trading signals">>,
                    <<"Divergence between MACD and price can indicate potential reversals">>,
                    <<"MACD histogram shows the difference between MACD and signal line">> >>,
                improvement_suggestions |-> <<
                    <<"Use MACD in conjunction with price action analysis">>,
                    <<"Consider the overall trend direction before taking MACD signals">>,
                    <<"Look for MACD divergence to identify potential trend exhaustion">> >>]
          [] s = "rsi" ->
               [feedback |-> Opening("a ", "Relative Strength Index (RSI)", asset, timeframe)
                             \o <<" RSI is a momentum oscillator ...">>,
                key_points |-> <<
                    <<"RSI measures the magnitude of recent price changes to evaluate overbought or oversold conditions">>,
                    <<"Traditional overbought level is 70 and oversold level is 30">>,
                    <<"RSI can remain in overbought/oversold territory during strong trends">>,
                    <<"RSI divergence with price can signal potential trend reversals">> >>,
                improvement_suggestions |-> <<
                    <<"Adjust the RSI overbought/oversold levels based on the asset's volatility">>,
                    <<"Combine RSI with trend indicators to avoid counter-trend trades">>,
                    <<"Look for RSI divergence to confirm potential reversal signals">> >>]
          [] s = "bollinger" ->
               [feedback |-> Opening("a ", "Bollinger Bands", asset, timeframe)
                             \o <<" Bollinger Bands consist of a middle band ...">>,
                key_points |-> <<
                    <<"Bollinger Bands adapt to market volatility by widening and narrowing">>,
                    <<"Price touching the bands alone is not necessarily a signal to trade">>,
                    <<"Band width indicates market volatility - narrow bands often precede significant moves">>,
                    <<"The middle band (SMA) can act as support/resistance in trending markets">> >>,
                improvement_suggestions |-> <<
                    <<"Combine with volume indicators to confirm breakouts">>,
                    <<"Use additional indicators to determine if the market is trending or ranging">>,
                    <<"Consider using Bollinger Band %B or Bandwidth for additional insights">> >>]]

\* the default of strategy_templates.get(strategy, {...})
generic_template(asset, strategy, timeframe, performance) ==
    [feedback |-> Opening("a ", strategy_name(strategy), asset, timeframe)
                  \o <<" The performance shows an ROI of ",
                       Format(RoiGet(performance, [kind |-> "unknown", val |-> 0])),
                       "%. Trading strategies can perform differently ...">>,
     key_points |-> <<
         <<"Different strategies perform better in different market conditions">>,
         <<"Risk management is essential for long-term success">>,
         <<"Past performance is not indicative of future results">>,
         <<"Understanding the underlying principles of a strategy is more valuable than blindly following signals">> >>,
     improvement_suggestions |-> <<
         <<"Backtest the strategy across different market conditions">>,
         <<"Consider combining multiple indicators for confirmation">>,
         <<"Implement proper position sizing and risk management rules">> >>]

\* template = strategy_templates.get(strategy, {...})
template_for(asset, strategy, timeframe, performance) ==
    IF strategy \in KnownStrategies
    THEN strategy_templates(asset, timeframe)[strategy]
    ELSE generic_template(asset, strategy, timeframe, performance)

\* performance_feedback with `roi >= 15` in place of `roi > 15`
performance_feedback_from_15(roi) ==
    IF roi.val >= 15
    THEN <<"The strategy performed well with an ROI of ", Format(roi),
           "%, but remember that past performance doesn't guarantee future results. Market conditions can change rapidly.">>
    ELSE IF roi.val > 0
         THEN <<"The strategy showed a positive ROI of ", Format(roi),
                "%, which is a moderate result. Consider how different market conditions might affect performance.">>
         ELSE <<"The strategy resulted in a negative ROI of ", Format(roi),
                "%. This provides a valuable learning opportunity to understand what factors contributed to the underperformance.">>

\* the sentence chosen by `if roi > 15 ... elif roi > 0 ... else`
performance_feedback(roi) ==
    IF roi.val > 15
    THEN <<"The strategy performed well with an ROI of ", Format(roi),
           "%, but remember that past performance doesn't guarantee future results. Market conditions can change rapidly.">>
    ELSE IF roi.val > 0
         THEN <<"The strategy showed a positive ROI of ", Format(roi),
                "%, which is a moderate result. Consider how different market conditions might affect performance.">>
         ELSE <<"The strategy resulted in a negative ROI of ", Format(roi),
                "%. This provides a valuable learning opportunity to understand what factors contributed to the underperformance.">>

\* performance['roi'] in place of performance.get('roi', 0): a KeyError when absent
TemplateRaisesOnAbsentRoi(performance) == performance.roi.kind # "num"

\* `roi > 15` raises TypeError when roi is not a number
TemplateRaises(performance) == RoiGet(performance, NumRoi(0)).kind # "num"

\* _get_template_feedback, when it does not raise
get_template_feedback(asset, strategy, timeframe, performance) ==
    LET template == template_for(asset, strategy, timeframe, performance)
        roi == RoiGet(performance, NumRoi(0))
    IN  [feedback                |-> template.feedback \o <<" ">> \o performance_feedback(roi),
         key_points              |-> template.key_points,
         improvement_suggestions |-> template.improvement_suggestions]

\* the result of the outer `except Exception`
ApologyResult ==
    [feedback                |-> <<"Unable to generate feedback at this time. Please try again later.">>,
     key_points              |-> << <<"System is currently experiencing issues.">> >>,
     improvement_suggestions |-> << <<"Please try again later.">> >>]

(***************************************************************************)
(* ai_service.py: what a provider call can do                              *)
(***************************************************************************)
\* sample sections of a response
SecNarrative   == << <<"Overview">> >>
SecKeyPoints   == << <<"Key Point", "s:">>, <<"-", " ", "a">>, <<"-", " ", "b">>, <<"-", " ", "h">> >>
SecKeyPlain    == << <<"the", " ", "key point", "s">>, <<"c">>, <<" ">>, <<"-", " ">> >>
SecSuggestions == << <<"Suggestion", "s:">>, <<"-", " ", "d">>, <<"-", " ", "e">> >>
SecImprovement == << <<"improvement">>, <<"f">> >>
SecBoth        == << <<"Key Point", " ", "Improvement">>, <<"-", " ", "g">> >>
\* "".split("\n\n") is [""]: one section holding one empty line
SecEmpty       == << <<>> >>

SampleSections ==
    {SecNarrative, SecKeyPoints, SecKeyPlain, SecSuggestions, SecImprovement, SecBoth, SecEmpty}

\* content.split("\n\n") for the texts a provider may answer with
ProviderContents == SeqsUpTo(SampleSections, MaxSections)

\* a chat.completions.create call: it raises (network, auth, rate limit), or it
\* answers with message.content None, or with a text
ProviderOutcomes ==
    {[kind |-> "error", sections |-> NoContent], [kind |-> "null", sections |-> NoContent]}
    \cup {[kind |-> "text", sections |-> c] : c \in ProviderContents}

\* the call or the parsing raises: content.split on None is an AttributeError
ProviderRaises(outcome) == outcome.kind # "text"

\* _get_deepseek_feedback, when it does not raise
get_deepseek_feedback(outcome) == ParseResponse(outcome.sections)

\* _get_openai_feedback, when it does not raise
get_openai_feedback(outcome) == ParseResponse(outcome.sections)

(***************************************************************************)
(* sentiment_analysis_service.py                                           *)
(*                                                                         *)
(* A text is the sequence of its words (the maximal runs of word           *)
(* characters): re.search(r'\bkeyword\b', text_lower) finds a keyword,     *)
(* which is one word, exactly when some word of the lower-cased text is    *)
(* the keyword.  A score is the exact fraction num/den.                    *)
(***************************************************************************)
positive_keywords ==
    <<"bullish", "uptrend", "growth", "profit", "gain", "outperform",
      "buy", "strong", "positive", "up", "rise", "rising", "rally",
      "opportunity", "optimistic", "confident", "exceed", "beat",
      "momentum", "recovery", "upgrade", "success", "improve">>

negative_keywords ==
    <<"bearish", "downtrend", "decline", "loss", "risk", "underperform",
      "sell", "weak", "negative", "down", "fall", "falling", "drop",
      "threat", "pessimistic", "concerned", "miss", "below",
      "slowdown", "recession", "downgrade", "failure", "worsen">>

\* text.lower()
TextLower(t) == [i \in DOMAIN t |-> Lower(t[i])]

\* re.search(r'\b' + keyword + r'\b', text_lower)
Search(keyword, text_lower) == \E i \in DOMAIN text_lower : text_lower[i] = keyword

\* sum(1 for keyword in keywords if re.search(...))
KeywordCount(keywords, text_lower) ==
    Cardinality({k \in DOMAIN keywords : Search(keywords[k], text_lower)})

\* `sentiment_score >= 0.25` in place of `sentiment_score > 0.25`
AtLeastQuarter(score) == 4 * score.num >= score.den

\* score > 1/4 and score < -1/4, for a fraction with a positive denominator
AboveQuarter(score) == 4 * score.num > score.den
BelowMinusQuarter(score) == 4 * score.num < -score.den

analyze_sentiment(t) ==
    LET text_lower == TextLower(t)
        positive_count == KeywordCount(positive_keywords, text_lower)
        negative_count == KeywordCount(negative_keywords, text_lower)
        total_count == positive_count + negative_count
        sentiment_score == IF total_count = 0 THEN Fraction(0, 1)
                           ELSE Fraction(positive_count - negative_count, total_count)
        p == ToString(positive_count)
        n == ToString(negative_count)
    IN  [positive_count |-> positive_count,
         negative_count |-> negative_count,
         score |-> sentiment_score,
         sentiment |->
            IF total_count = 0 THEN "neutral"
            ELSE IF AboveQuarter(sentiment_score) THEN "positive"
            ELSE IF BelowMinusQuarter(sentiment_score) THEN "negative"
            ELSE "neutral",
         explanation |->
            IF total_count = 0 THEN <<"No clear sentiment indicators found in the text.">>
            ELSE IF AboveQuarter(sentiment_score)
            THEN <<"The text contains more positive financial indicators (", p,
                   ") than negative ones (", n, ").">>
            ELSE IF BelowMinusQuarter(sentiment_score)
            THEN <<"The text contains more negative financial indicators (", n,
                   ") than positive ones (", p, ").">>
            ELSE <<"The text contains a balanced mix of positive (", p,
                   ") and negative (", n, ") financial indicators.">>]

\* the words a client writes
Words == {"buy", "Buy", "rally", "sell", "SELL", "risk", "buying", "the"}

\* texts a client starts from
SampleTexts ==
    { <<>>,
      <<"The", "stock", "is", "bullish", "and", "rising", "strong", "buy", "signal">>,
      <<"Bearish", "sentiment", "sell", "recommendation", "amid", "recession", "fears",
        "and", "downgrade">>,
      <<"growth", "profit", "gain", "rally", "buy", "loss", "risk", "weak">>,
      <<"growth", "profit", "gain", "loss", "risk", "weak", "sell", "drop">> }

SentimentInit ==
    /\ text \in SampleTexts
    /\ analysis = NoAnalysis
    /\ DEEPSEEK_API_KEY = FALSE
    /\ OPENAI_API_KEY = FALSE
    /\ FeedbackIdle
    /\ AnomalyIdle
    /\ ApiIdle
    /\ GenerateIdle
    /\ SimulationsIdle
    /\ AuthIdle

\* the client writes one more word
AppendWord ==
    /\ Len(text) < MaxWords
    /\ \E w \in Words : text' = Append(text, w)
    /\ analysis' = NoAnalysis
    /\ UNCHANGED notSaVars

\* analyze_sentiment(text)
Analyze ==
    /\ analysis = NoAnalysis
    /\ analysis' = analyze_sentiment(text)
    /\ UNCHANGED <<text, notSaVars>>

SentimentNext == AppendWord \/ Analyze

SpecSentiment == SentimentInit /\ [][SentimentNext]_vars

(***************************************************************************)
(* anomaly_detection_service.py                                            *)
(*                                                                         *)
(* The series holds integers and the arithmetic is exact.  A score z >= 0  *)
(* is held as its square, the fraction num/den = z * z: z is |x - mean| /  *)
(* std, and std is a square root.  Indices are python's, from 0.           *)
(***************************************************************************)
\* threshold = 3.0
Threshold == 3

RECURSIVE Sum(_)
Sum(seq) == IF seq = <<>> THEN 0 ELSE Head(seq) + Sum(Tail(seq))

SumSq(seq) == Sum([k \in DOMAIN seq |-> seq[k] * seq[k]])

\* the square of the score 0.0
ZeroScore == Fraction(0, 1)

\* data_array[i - window_size : i] with a window that mixes in the point itself
WindowWithCurrent(data_array, i, w) == SubSeq(data_array, i - w + 2, i + 1)

\* window = data_array[i - window_size : i]
Window(data_array, i, w) == SubSeq(data_array, i - w + 1, i)

\* Len(window)^2 * np.std(window)^2, the population variance scaled to an integer
ScaledVariance(window) == Len(window) * SumSq(window) - Sum(window) * Sum(window)

\* window_std == 0
StdIsZero(window) == ScaledVariance(window) = 0

\* the square of abs((x - window_mean) / window_std)
ZScoreSq(x, window) ==
    LET d == Len(window) * x - Sum(window)
    IN  Fraction(d * d, ScaledVariance(window))

\* `z_score >= threshold` in place of `z_score > threshold`
ReachesThreshold(zsq) == zsq.num >= Threshold * Threshold * zsq.den

\* z_score > threshold
ExceedsThreshold(zsq) == zsq.num > Threshold * Threshold * zsq.den

\* the early return with scores=[] in place of [0.0] * len(data)
ShortSeriesReportNoScores(series) ==
    [anomalies |-> <<>>, scores |-> <<>>, threshold |-> Threshold]

\* the early return for len(data) < window_size
ShortSeriesReport(series) ==
    [anomalies |-> <<>>, scores |-> [k \in 1..Len(series) |-> ZeroScore], threshold |-> Threshold]

\* the loop `for i in range(len(data_array))`, after its first n rounds
DetectLoop(data_array, w) ==
    LET F[n \in 0..Len(data_array)] ==
            IF n = 0 THEN [scores |-> <<>>, anomalies |-> <<>>]
            ELSE LET acc == F[n - 1]
                     i == n - 1
                 IN  IF i < w
                     THEN [acc EXCEPT !.scores = Append(@, ZeroScore)]
                     ELSE LET window == Window(data_array, i, w)
                          IN  IF StdIsZero(window)
                              THEN [acc EXCEPT !.scores = Append(@, ZeroScore)]
                              ELSE LET z_score == ZScoreSq(data_array[i + 1], window)
                                   IN  [scores    |-> Append(acc.scores, z_score),
                                        anomalies |-> IF ExceedsThreshold(z_score)
                                                      THEN Append(acc.anomalies, i)
                                                      ELSE acc.anomalies]
    IN  F[Len(data_array)]

detect_anomalies(series, w) ==
    IF Len(series) < w
    THEN ShortSeriesReport(series)
    ELSE LET loop == DetectLoop(series, w)
         IN  [anomalies |-> loop.anomalies, scores |-> loop.scores, threshold |-> Threshold]

\* the values of a series
Values == {0, 2, 4, 9, 40}

\* window_size > 0
WindowSizes == 1..MaxWindow

AnomalyInit ==
    /\ AnomalyIdle
    /\ DEEPSEEK_API_KEY = FALSE
    /\ OPENAI_API_KEY = FALSE
    /\ FeedbackIdle
    /\ SentimentIdle
    /\ ApiIdle
    /\ GenerateIdle
    /\ SimulationsIdle
    /\ AuthIdle

\* the client adds a point to the series
AppendPoint ==
    /\ Len(data) < MaxSeries
    /\ \E v \in Values : data' = Append(data, v)
    /\ report' = NoReport
    /\ UNCHANGED <<window_size, notAdVars>>

\* detect_anomalies(data, window_size)
Detect ==
    /\ report = NoReport
    /\ \E w \in WindowSizes :
          /\ window_size' = w
          /\ report' = detect_anomalies(data, w)
    /\ UNCHANGED <<data, notAdVars>>

AnomalyNext == AppendPoint \/ Detect

SpecAnomaly == AnomalyInit /\ [][AnomalyNext]_vars

(***************************************************************************)
(* ai_service.py: get_educational_feedback, tier by tier                   *)
(***************************************************************************)
Assets == {"BTC", "AAPL"}
Strategies == KnownStrategies \cup {"momentum"}
Timeframes == {30}
RoiValues ==
    {[kind |-> "absent", val |-> 0], [kind |-> "text", val |-> 0]}
    \cup {NumRoi(n) : n \in {-5, 0, 10, 15, 20}}
Performances == [roi : RoiValues]

FeedbackInit ==
    /\ DEEPSEEK_API_KEY \in BOOLEAN
    /\ OPENAI_API_KEY \in BOOLEAN
    /\ FeedbackIdle
    /\ SentimentIdle
    /\ AnomalyIdle
    /\ ApiIdle
    /\ GenerateIdle
    /\ SimulationsIdle
    /\ AuthIdle

\* the caller enters get_educational_feedback
Call ==
    /\ pc = "idle"
    /\ \E a \in Assets, s \in Strategies, t \in Timeframes, p \in Performances :
          request' = [asset |-> a, strategy |-> s, timeframe |-> t, performance |-> p]
    /\ pc' = "deepseek"
    /\ attempts' = <<>>
    /\ raised' = {}
    /\ content' = NoContent
    /\ result' = [tier |-> "none", value |-> NoResult]
    /\ UNCHANGED <<DEEPSEEK_API_KEY, OPENAI_API_KEY, notFbVars>>

\* `if settings.DEEPSEEK_API_KEY:` and the try around _get_deepseek_feedback
TryDeepSeek ==
    /\ pc = "deepseek"
    /\ IF DEEPSEEK_API_KEY
       THEN \E outcome \in ProviderOutcomes :
               /\ attempts' = Append(attempts, "deepseek")
               /\ IF ProviderRaises(outcome)
                  THEN /\ raised' = raised \cup {"deepseek"}
                       /\ pc' = "openai"
                       /\ UNCHANGED <<content, result>>
                  ELSE /\ result' = [tier |-> "deepseek", value |-> get_deepseek_feedback(outcome)]
                       /\ content' = outcome.sections
                       /\ pc' = "done"
                       /\ UNCHANGED raised
       ELSE /\ pc' = "openai"
            /\ UNCHANGED <<attempts, raised, content, result>>
    /\ UNCHANGED <<DEEPSEEK_API_KEY, OPENAI_API_KEY, request, notFbVars>>

\* TryOpenAI without the `if settings.OPENAI_API_KEY:` test
TryOpenAIUnconfigured ==
    /\ pc = "openai"
    /\ \E outcome \in ProviderOutcomes :
          /\ attempts' = Append(attempts, "openai")
          /\ IF ProviderRaises(outcome)
             THEN /\ raised' = raised \cup {"openai"}
                  /\ pc' = "template"
                  /\ UNCHANGED <<content, result>>
             ELSE /\ result' = [tier |-> "openai", value |-> get_openai_feedback(outcome)]
                  /\ content' = outcome.sections
                  /\ pc' = "done"
                  /\ UNCHANGED raised
    /\ UNCHANGED <<DEEPSEEK_API_KEY, OPENAI_API_KEY, request, notFbVars>>

\* TryOpenAI without the inner try: the provider's exception reaches the outer except
TryOpenAIUncaught ==
    /\ pc = "openai"
    /\ IF OPENAI_API_KEY
       THEN \E outcome \in ProviderOutcomes :
               /\ attempts' = Append(attempts, "openai")
               /\ IF ProviderRaises(outcome)
                  THEN /\ raised' = raised \cup {"openai"}
                       /\ pc' = "except"
                       /\ UNCHANGED <<content, result>>
                  ELSE /\ result' = [tier |-> "openai", value |-> get_openai_feedback(outcome)]
                       /\ content' = outcome.sections
                       /\ pc' = "done"
                       /\ UNCHANGED raised
       ELSE /\ pc' = "template"
            /\ UNCHANGED <<attempts, raised, content, result>>
    /\ UNCHANGED <<DEEPSEEK_API_KEY, OPENAI_API_KEY, request, notFbVars>>

\* `if settings.OPENAI_API_KEY:` and the try around _get_openai_feedback
TryOpenAI ==
    /\ pc = "openai"
    /\ IF OPENAI_API_KEY
       THEN \E outcome \in ProviderOutcomes :
               /\ attempts' = Append(attempts, "openai")
               /\ IF ProviderRaises(outcome)
                  THEN /\ raised' = raised \cup {"openai"}
                       /\ pc' = "template"
                       /\ UNCHANGED <<content, result>>
                  ELSE /\ result' = [tier |-> "openai", value |-> get_openai_feedback(outcome)]
                       /\ content' = outcome.sections
                       /\ pc' = "done"
                       /\ UNCHANGED raised
       ELSE /\ pc' = "template"
            /\ UNCHANGED <<attempts, raised, content, result>>
    /\ UNCHANGED <<DEEPSEEK_API_KEY, OPENAI_API_KEY, request, notFbVars>>

\* `return _get_template_feedback(...)`
UseTemplate ==
    /\ pc = "template"
    /\ attempts' = Append(attempts, "template")
    /\ IF TemplateRaises(request.performance)
       THEN /\ raised' = raised \cup {"template"}
            /\ pc' = "except"
            /\ UNCHANGED result
       ELSE /\ result' = [tier  |-> "template",
                          value |-> get_template_feedback(request.asset, request.strategy,
                                                          request.timeframe, request.performance)]
            /\ pc' = "done"
            /\ UNCHANGED raised
    /\ UNCHANGED <<DEEPSEEK_API_KEY, OPENAI_API_KEY, request, content, notFbVars>>

\* the outer `except Exception`: the fixed apology
Failed ==
    /\ pc = "except"
    /\ result' = [tier |-> "apology", value |-> ApologyResult]
    /\ pc' = "done"
    /\ UNCHANGED <<DEEPSEEK_API_KEY, OPENAI_API_KEY, request, attempts, raised, content, notFbVars>>

\* the caller takes the result; nothing of the call is kept
Return ==
    /\ pc = "done"
    /\ pc' = "idle"
    /\ request' = NoRequest
    /\ attempts' = <<>>
    /\ raised' = {}
    /\ content' = NoContent
    /\ result' = [tier |-> "none", value |-> NoResult]
    /\ UNCHANGED <<DEEPSEEK_API_KEY, OPENAI_API_KEY, notFbVars>>

FeedbackNext == Call \/ TryDeepSeek \/ TryOpenAI \/ UseTemplate \/ Failed \/ Return

SpecFeedback == FeedbackInit /\ [][FeedbackNext]_vars

(***************************************************************************)
(* ai_service.py: get_educational_feedback as one call                     *)
(***************************************************************************)
\* the result of the call when DeepSeek does ds and OpenAI does oa, if asked
get_educational_feedback(asset, strategy, timeframe, performance, ds, oa) ==
    IF DEEPSEEK_API_KEY /\ ~ProviderRaises(ds) THEN get_deepseek_feedback(ds)
    ELSE IF OPENAI_API_KEY /\ ~ProviderRaises(oa) THEN get_openai_feedback(oa)
    ELSE IF TemplateRaises(performance) THEN ApologyResult
    ELSE get_template_feedback(asset, strategy, timeframe, performance)

(***************************************************************************)
(* api/ai.py: the three handlers in front of redis                         *)
(*                                                                         *)
(* A handler runs from its redis.get to its return without an await, so    *)
(* one request is one step.  An entry leaves redis when its hour is over.  *)
(***************************************************************************)
\* the requests of the model
ApiTexts == << <<"buy">>, <<"sell", "risk">> >>
ApiSeries == << <<0, 2, 40>>, <<0, 2, 4>> >>
ApiWindows == {2}
ApiAssets == {"BTC"}
ApiStrategies == {"rsi", "momentum"}
ApiTimeframes == {30}
ApiPerformances == {[roi |-> NumRoi(20)], [roi |-> NumRoi(-5)]}
ApiOutcomes ==
    {[kind |-> "error", sections |-> NoContent],
     [kind |-> "text", sections |-> <<SecNarrative, SecKeyPoints>>]}

\* json.dumps of a list of floats, token by token
JsonDumps(series) ==
    LET F[i \in 0..Len(series)] ==
            IF i = 0 THEN <<"[">>
            ELSE F[i - 1] \o (IF i > 1 THEN <<", ">> ELSE <<>>)
                          \o <<ToString(series[i]) \o ".0">>
    IN  F[Len(series)] \o <<"]">>

\* what the handlers hash
HashInputs == ApiTexts \o [i \in DOMAIN ApiSeries |-> JsonDumps(ApiSeries[i])]

\* hash(s): fixed within a process; the strings of the model get distinct
\* values (two strings with one 64-bit hash are outside the model)
PyHash(s) == CHOOSE h \in DOMAIN HashInputs : HashInputs[h] = s

\* cache_key = f"sentiment:{hash(request.text)}"
SentimentKey(req) == "sentiment:" \o ToString(PyHash(req.text))

\* cache_key = f"anomalies:{hash(json.dumps(request.data))}-{request.window_size}"
AnomaliesKey(req) ==
    "anomalies:" \o ToString(PyHash(JsonDumps(req.data))) \o "-" \o ToString(req.window_size)

\* cache_key = f"feedback:{request.asset}-{request.strategy}-{request.timeframe}"
FeedbackKey(req) ==
    "feedback:" \o req.asset \o "-" \o req.strategy \o "-" \o ToString(req.timeframe)

\* result.json(), and with it (history) the request it was computed for
Json(body, req) == [json |-> body, from |-> req]

\* Response.parse_raw(cached_result)
ParseRaw(entry) == entry.json

\* the fields of SentimentAnalysisResponse
SentimentResponse(a) ==
    [sentiment |-> a.sentiment, score |-> a.score, explanation |-> a.explanation]

\* redis.setex(key, 3600, value)
Setex(key, value) ==
    [k \in DOMAIN redis \cup {key} |-> IF k = key THEN value ELSE redis[k]]

InternalServerError == [status |-> 500, source |-> "error"]

\* Serve with a setex whose exception is swallowed: the computed result is returned
ServeDespiteSetexFailure(req, cache_key, computed, get_ok, setex_ok) ==
    IF ~get_ok
    THEN [redis |-> redis, response |-> InternalServerError, fault |-> "get"]
    ELSE IF cache_key \in DOMAIN redis
    THEN [redis    |-> redis,
          response |-> [status |-> 200, source |-> "cache",
                        body |-> ParseRaw(redis[cache_key]),
                        from |-> redis[cache_key].from],
          fault    |-> "none"]
    ELSE IF ~setex_ok
    THEN [redis    |-> redis,
          response |-> [status |-> 200, source |-> "computed",
                        body |-> computed, from |-> req],
          fault    |-> "setex"]
    ELSE [redis    |-> Setex(cache_key, Json(computed, req)),
          response |-> [status |-> 200, source |-> "computed",
                        body |-> computed, from |-> req],
          fault    |-> "none"]

\* the body shared by the three handlers: get, return the hit, or compute,
\* setex and return; an exception of redis.get or redis.setex becomes a 500.
\* [redis after the request, response, the call that raised]
Serve(req, cache_key, computed, get_ok, setex_ok) ==
    IF ~get_ok
    THEN [redis |-> redis, response |-> InternalServerError, fault |-> "get"]
    ELSE IF cache_key \in DOMAIN redis
    THEN [redis    |-> redis,
          response |-> [status |-> 200, source |-> "cache",
                        body |-> ParseRaw(redis[cache_key]),
                        from |-> redis[cache_key].from],
          fault    |-> "none"]
    ELSE IF ~setex_ok
    THEN [redis |-> redis, response |-> InternalServerError, fault |-> "setex"]
    ELSE [redis    |-> Setex(cache_key, Json(computed, req)),
          response |-> [status |-> 200, source |-> "computed",
                        body |-> computed, from |-> req],
          fault    |-> "none"]

\* POST /sentiment
sentiment_analysis ==
    /\ served < MaxRequests
    /\ \E t \in Range(ApiTexts), get_ok \in BOOLEAN, setex_ok \in BOOLEAN :
          LET req == [endpoint |-> "sentiment", text |-> t]
              out == Serve(req, SentimentKey(req), SentimentResponse(analyze_sentiment(t)),
                           get_ok, setex_ok)
          IN  /\ lastRequest' = req
              /\ redis' = out.redis
              /\ lastResponse' = out.response
              /\ lastFault' = out.fault
    /\ served' = served + 1
    /\ UNCHANGED <<DEEPSEEK_API_KEY, OPENAI_API_KEY, notApiVars>>

\* POST /anomalies
anomaly_detection ==
    /\ served < MaxRequests
    /\ \E d \in Range(ApiSeries), w \in ApiWindows, get_ok \in BOOLEAN, setex_ok \in BOOLEAN :
          LET req == [endpoint |-> "anomalies", data |-> d, window_size |-> w]
              out == Serve(req, AnomaliesKey(req), detect_anomalies(d, w), get_ok, setex_ok)
          IN  /\ lastRequest' = req
              /\ redis' = out.redis
              /\ lastResponse' = out.response
              /\ lastFault' = out.fault
    /\ served' = served + 1
    /\ UNCHANGED <<DEEPSEEK_API_KEY, OPENAI_API_KEY, notApiVars>>

\* POST /feedback
educational_feedback ==
    /\ served < MaxRequests
    /\ \E a \in ApiAssets, s \in ApiStrategies, t \in ApiTimeframes, p \in ApiPerformances,
          ds \in ApiOutcomes, oa \in ApiOutcomes, get_ok \in BOOLEAN, setex_ok \in BOOLEAN :
          LET req == [endpoint |-> "feedback", asset |-> a, strategy |-> s, timeframe |-> t,
                      performance |-> p]
              out == Serve(req, FeedbackKey(req),
                           get_educational_feedback(a, s, t, p, ds, oa), get_ok, setex_ok)
          IN  /\ lastRequest' = req
              /\ redis' = out.redis
              /\ lastResponse' = out.response
              /\ lastFault' = out.fault
    /\ served' = served + 1
    /\ UNCHANGED <<DEEPSEEK_API_KEY, OPENAI_API_KEY, notApiVars>>

\* the hour of an entry is over
Expire ==
    /\ \E key \in DOMAIN redis : redis' = [k \in DOMAIN redis \ {key} |-> redis[k]]
    /\ UNCHANGED <<served, lastRequest, lastResponse, lastFault,
                   DEEPSEEK_API_KEY, OPENAI_API_KEY, notApiVars>>

CacheInit ==
    /\ DEEPSEEK_API_KEY \in BOOLEAN
    /\ OPENAI_API_KEY \in BOOLEAN
    /\ FeedbackIdle
    /\ SentimentIdle
    /\ AnomalyIdle
    /\ ApiIdle
    /\ GenerateIdle
    /\ SimulationsIdle
    /\ AuthIdle

CacheNext == sentiment_analysis \/ anomaly_detection \/ educational_feedback \/ Expire

SpecCache == CacheInit /\ [][CacheNext]_vars

(***************************************************************************)
(* api/simulations.py: generate_mock_data                                  *)
(*                                                                         *)
(* Money is held in integers: current_price in thousandths, a stored price *)
(* and an indicator in hundredths (they are rounded to 2 decimals), a      *)
(* performance in 1/100000, an initial capital in whole units, a final     *)
(* capital in hundredths and a roi in hundredths of a percent.  Indices    *)
(* are python's, from 0.                                                   *)
(***************************************************************************)
\* how many rounds of one call draw something else than 0.5
MaxMoves == 2
\* the longest timeframe a client asks for
MaxDays == 21

\* round(n / d) to the nearest integer, a tie to the even one (d > 0)
RoundDiv(n, d) ==
    LET q == n \div d
        r == n - q * d
    IN  IF 2 * r < d THEN q
        ELSE IF 2 * r > d THEN q + 1
        ELSE IF q % 2 = 0 THEN q ELSE q + 1

\* round(current_price, 2): thousandths to hundredths
Round2(price) == RoundDiv(price, 10)

\* start_price by asset, in thousandths
start_price(asset) ==
    CASE asset = "BTC" -> 30000000
      [] asset = "ETH" -> 2000000
      [] OTHER         -> 100000

\* volatility by asset, in percent
volatility(asset) ==
    CASE asset = "BTC" -> 3
      [] asset = "ETH" -> 4
      [] OTHER         -> 2

\* change = current_price * volatility * (random.random() - 0.5), for the draws
\* 0.0, 0.5 and the largest below 1.0: random.random() is in [0.0, 1.0)
Changes(price, vol) ==
    {-((price * vol) \div 200), 0, (price * vol - 1) \div 200}

\* max(current_price + change, 0.1)
NextPrice(price, change) ==
    IF price + change > 100 THEN price + change ELSE 100

\* [data[j].price for j in range(i - n, i)]
PricesBefore(points, idx, n) == [k \in 1..n |-> points[idx - n + k].price]

\* `if i >= 20` in place of `if i >= 19`
SmaPresentFromDay21(idx) == idx >= 20

\* if i >= 19
SmaPresent(idx) == idx >= 19

\* if i >= 9
EmaPresent(idx) == idx >= 9

\* sma20 = sum(sma_prices) / 20 over range(i-19, i), then round(sma20, 2)
Sma20(points, idx) ==
    IF SmaPresent(idx)
    THEN Some(RoundDiv(Sum(PricesBefore(points, idx, 19)), 20))
    ELSE None

\* ema10 = sum(ema_prices) / 10 over range(i-9, i), then round(ema10, 2)
Ema10(points, idx) ==
    IF EmaPresent(idx)
    THEN Some(RoundDiv(Sum(PricesBefore(points, idx, 9)), 10))
    ELSE None

\* day=i in place of day=i+1
DataPointDayFromZero(points, idx, price) ==
    [day |-> idx, price |-> Round2(price),
     sma20 |-> Sma20(points, idx), ema10 |-> Ema10(points, idx)]

\* SimulationDataPoint(day=i+1, price=round(current_price, 2), sma20=..., ema10=...)
DataPoint(points, idx, price) ==
    [day |-> idx + 1, price |-> Round2(price),
     sma20 |-> Sma20(points, idx), ema10 |-> Ema10(points, idx)]

\* random.uniform(a, b), in 1/100000: the ends and a value between them
Uniform(a, b) == {a, b} \cup {x \in {12346} : a <= x /\ x <= b}

\* the dict strategy_performance: what each key can hold
strategy_performance ==
    [s \in KnownStrategies |->
        CASE s = "sma_crossover" -> Uniform(-10000, 30000)
          [] s = "ema_crossover" -> Uniform(-5000, 25000)
          [] s = "macd"          -> Uniform(-15000, 35000)
          [] s = "rsi"           -> Uniform(-20000, 40000)
          [] s = "bollinger"     -> Uniform(-10000, 30000)]

\* performance = strategy_performance.get(strategy, 0.1)
PerformanceGet(strategy) ==
    IF strategy \in DOMAIN strategy_performance
    THEN strategy_performance[strategy]
    ELSE {10000}

\* final_capital = initial_capital * performance, without the `1 +`
FinalCapitalGainOnly(initial_capital, perf) == RoundDiv(initial_capital * perf, 1000)

\* round(initial_capital * (1 + performance), 2)
FinalCapital(initial_capital, perf) == RoundDiv(initial_capital * (100000 + perf), 1000)

\* round(performance * 100, 2)
Roi(perf) == RoundDiv(perf, 10)

\* str(uuid.uuid4()): the n-th id
Uuid(n) == "uuid-" \o ToString(n)

\* time.strftime("%Y-%m-%d %H:%M:%S")
Clock == {"2024-01-01 12:00:00"}

\* result = SimulationResult(...)
BuildResult(sim_id, sim, perf, points, now) ==
    [id |-> sim_id, user_id |-> "mock-user-id", asset |-> sim.asset,
     strategy |-> sim.strategy, timeframe |-> sim.timeframe,
     initial_capital |-> sim.initial_capital,
     final_capital |-> FinalCapital(sim.initial_capital, perf),
     roi |-> Roi(perf), data |-> points, created_at |-> now]

\* the calls of the model: every asset and strategy over a day or two, and two
\* calls long enough for both indicators
SimAssets == {"BTC", "ETH", "AAPL"}
SimStrategies == KnownStrategies \cup {"momentum"}
SimRequests ==
    [asset : SimAssets, strategy : SimStrategies, timeframe : {1, 2}, initial_capital : {10000}]
    \cup {[asset |-> "BTC", strategy |-> "sma_crossover", timeframe |-> MaxDays,
           initial_capital |-> 10000],
          [asset |-> "AAPL", strategy |-> "rsi", timeframe |-> MaxDays - 1,
           initial_capital |-> 999]}

GenerateInit ==
    /\ GenerateIdle
    /\ DEEPSEEK_API_KEY = FALSE
    /\ OPENAI_API_KEY = FALSE
    /\ FeedbackIdle
    /\ SentimentIdle
    /\ AnomalyIdle
    /\ ApiIdle
    /\ SimulationsIdle
    /\ AuthIdle

\* the caller enters generate_mock_data: lines 18-36
EnterGenerate ==
    /\ gen_pc = "idle"
    /\ \E sim \in SimRequests :
          /\ simulation' = sim
          /\ current_price' = start_price(sim.asset)
    /\ gen_i' = 0
    /\ sim_data' = <<>>
    /\ moves' = 0
    /\ gen_performance' = 0
    /\ sim_result' = NoSimulationResult
    /\ gen_pc' = "loop"
    /\ UNCHANGED <<DEEPSEEK_API_KEY, OPENAI_API_KEY, notGenVars>>

\* one round of `for i in range(timeframe)`
LoopRound ==
    /\ gen_pc = "loop"
    /\ gen_i < simulation.timeframe
    /\ \E change \in Changes(current_price, volatility(simulation.asset)) :
          /\ change # 0 => moves < MaxMoves
          /\ moves' = IF change # 0 THEN moves + 1 ELSE moves
          /\ current_price' = NextPrice(current_price, change)
          /\ sim_data' = Append(sim_data, DataPoint(sim_data, gen_i, current_price'))
    /\ gen_i' = gen_i + 1
    /\ UNCHANGED <<gen_pc, simulation, gen_performance, sim_result,
                   DEEPSEEK_API_KEY, OPENAI_API_KEY, notGenVars>>

\* after the loop: the performance, the result, the return
Finish ==
    /\ gen_pc = "loop"
    /\ gen_i >= simulation.timeframe
    /\ \E perf \in PerformanceGet(simulation.strategy), now \in Clock :
          /\ gen_performance' = perf
          /\ sim_result' = BuildResult(Uuid(1), simulation, perf, sim_data, now)
    /\ gen_pc' = "done"
    /\ UNCHANGED <<simulation, gen_i, current_price, sim_data, moves,
                   DEEPSEEK_API_KEY, OPENAI_API_KEY, notGenVars>>

\* the caller takes the result; nothing of the call is kept
TakeResult ==
    /\ gen_pc = "done"
    /\ gen_pc' = "idle"
    /\ simulation' = NoSimulation
    /\ gen_i' = 0
    /\ current_price' = 0
    /\ sim_data' = <<>>
    /\ moves' = 0
    /\ gen_performance' = 0
    /\ sim_result' = NoSimulationResult
    /\ UNCHANGED <<DEEPSEEK_API_KEY, OPENAI_API_KEY, notGenVars>>

GenerateNext == EnterGenerate \/ LoopRound \/ Finish \/ TakeResult

SpecGenerate == GenerateInit /\ [][GenerateNext]_vars

(***************************************************************************)
(* api/auth.py: the four handlers in front of the identity provider        *)
(*                                                                         *)
(* A handler is one step: the provider call, the test of response.error    *)
(* and the `except Exception` around both.                                 *)
(***************************************************************************)
Emails == {"ann@example.com", "bob@example.com"}
Passwords == {"secret", "wrong"}

\* what a call of supabase.auth can do: answer without an error, answer with
\* response.error set, or raise (network, configuration)
AuthOutcomes ==
    {[kind |-> "ok", message |-> ""],
     [kind |-> "error", message |-> "User already registered"],
     [kind |-> "error", message |-> "Rate limit exceeded"],
     [kind |-> "raises", message |-> "Connection refused"]}

\* HTTPException(status_code=..., detail=...)
HTTPException(status_code, detail) ==
    [class |-> "HTTPException", status_code |-> status_code, detail |-> detail]

\* any other exception
OtherException(message) == [class |-> "Exception", message |-> message]

NoException == [class |-> "none"]

\* `except Exception` catches e: HTTPException is a subclass of Exception
CaughtByExceptException(e) == e.class \in {"HTTPException", "Exception"}

\* str(e)
Str(e) == [str_of |-> e]

\* what the try block raises: the provider's exception, or the HTTPException
\* of `if response.error:`
RaisedInTry(outcome, error_exception) ==
    CASE outcome.kind = "raises" -> OtherException(outcome.message)
      [] outcome.kind = "error"  -> error_exception
      [] OTHER                   -> NoException

\* the response of a handler: the return value of the try block, or the
\* HTTPException its `except Exception as e` raises
AuthHandler(outcome, error_exception, success_status, success_body) ==
    LET e == RaisedInTry(outcome, error_exception)
    IN  IF e = NoException
        THEN [status |-> success_status, body |-> success_body]
        ELSE IF CaughtByExceptException(e)
        THEN [status |-> 500, detail |-> Str(e)]
        ELSE [status |-> e.status_code, detail |-> e.detail]

\* POST /register
register ==
    /\ authServed < MaxRequests
    /\ \E email \in Emails, password \in Passwords, outcome \in AuthOutcomes :
          /\ authRequest' = [endpoint |-> "register", email |-> email,
                             password |-> password, outcome |-> outcome]
          /\ authResponse' = AuthHandler(outcome, HTTPException(400, outcome.message), 201,
                                         [id |-> "user-id", email |-> email])
    /\ authServed' = authServed + 1
    /\ UNCHANGED <<DEEPSEEK_API_KEY, OPENAI_API_KEY, notAuthVars>>

\* POST /login
login ==
    /\ authServed < MaxRequests
    /\ \E email \in Emails, password \in Passwords, outcome \in AuthOutcomes :
          /\ authRequest' = [endpoint |-> "login", email |-> email,
                             password |-> password, outcome |-> outcome]
          /\ authResponse' = AuthHandler(outcome, HTTPException(401, "Invalid credentials"), 200,
                                         [access_token |-> "access-token",
                                          token_type |-> "bearer"])
    /\ authServed' = authServed + 1
    /\ UNCHANGED <<DEEPSEEK_API_KEY, OPENAI_API_KEY, notAuthVars>>

\* POST /logout
logout ==
    /\ authServed < MaxRequests
    /\ \E outcome \in AuthOutcomes :
          /\ authRequest' = [endpoint |-> "logout", outcome |-> outcome]
          /\ authResponse' = AuthHandler(outcome, HTTPException(400, outcome.message), 200,
                                         [message |-> "Successfully logged out"])
    /\ authServed' = authServed + 1
    /\ UNCHANGED <<DEEPSEEK_API_KEY, OPENAI_API_KEY, notAuthVars>>

\* POST /reset-password
reset_password ==
    /\ authServed < MaxRequests
    /\ \E email \in Emails, outcome \in AuthOutcomes :
          /\ authRequest' = [endpoint |-> "reset-password", email |-> email,
                             outcome |-> outcome]
          /\ authResponse' = AuthHandler(outcome, HTTPException(400, outcome.message), 200,
                                         [message |-> "Password reset email sent"])
    /\ authServed' = authServed + 1
    /\ UNCHANGED <<DEEPSEEK_API_KEY, OPENAI_API_KEY, notAuthVars>>

AuthInit ==
    /\ AuthIdle
    /\ DEEPSEEK_API_KEY = FALSE
    /\ OPENAI_API_KEY = FALSE
    /\ FeedbackIdle
    /\ SentimentIdle
    /\ AnomalyIdle
    /\ ApiIdle
    /\ GenerateIdle
    /\ SimulationsIdle

AuthNext == register \/ login \/ logout \/ reset_password

SpecAuth == AuthInit /\ [][AuthNext]_vars

(***************************************************************************)
(* api/simulations.py: generate_mock_data as one call                      *)
(***************************************************************************)
RECURSIVE MockRuns(_, _)
\* what the loop can leave after its first n rounds: [current_price, data]
MockRuns(asset, n) ==
    IF n = 0 THEN {[current_price |-> start_price(asset), data |-> <<>>]}
    ELSE UNION {
           {LET price == NextPrice(run.current_price, change)
            IN  [current_price |-> price,
                 data |-> Append(run.data, DataPoint(run.data, n - 1, price))] :
               change \in Changes(run.current_price, volatility(asset))} :
           run \in MockRuns(asset, n - 1)}

\* the results a call can return when uuid4 hands out sim_id at the time now
generate_mock_data(sim, sim_id, now) ==
    {BuildResult(sim_id, sim, perf, run.data, now) :
        run \in MockRuns(sim.asset, sim.timeframe), perf \in PerformanceGet(sim.strategy)}

(***************************************************************************)
(* api/simulations.py: create_simulation and get_simulation                *)
(*                                                                         *)
(* A handler runs without an await, so one request is one step.  An entry  *)
(* leaves redis when its hour is over.  uuid4 never hands out an id twice  *)
(* (two equal 122-bit random ids are outside the model).                   *)
(***************************************************************************)
\* simulations created in one run
MaxIds == 2

Uuids == {Uuid(n) : n \in 1..MaxIds}

\* str(uuid.uuid4()) in create_simulation: an id no simulation was created with
FreshUuid == Uuid(Cardinality(DOMAIN created) + 1)

\* the requests of the model
SimApiRequests ==
    {[asset |-> "ETH", strategy |-> "macd", timeframe |-> 1, initial_capital |-> 10000],
     [asset |-> "AAPL", strategy |-> "momentum", timeframe |-> 1, initial_capital |-> 999]}

\* the ids a client asks for
GetIds == Uuids \cup {"no-such-id"}

\* JSON values
JsonNumber(v) == [json |-> "number", val |-> v]
JsonString(v) == [json |-> "string", val |-> v]
JsonNull == [json |-> "null"]

\* an Optional[float] field to JSON and back
JsonOptional(o) == IF o.some THEN JsonNumber(o.val) ELSE JsonNull
ParseOptional(j) == IF j.json = "null" THEN None ELSE Some(j.val)

\* result.json()
SimulationJson(r) ==
    [id |-> JsonString(r.id), user_id |-> JsonString(r.user_id),
     asset |-> JsonString(r.asset), strategy |-> JsonString(r.strategy),
     timeframe |-> JsonNumber(r.timeframe),
     initial_capital |-> JsonNumber(r.initial_capital),
     final_capital |-> JsonNumber(r.final_capital), roi |-> JsonNumber(r.roi),
     data |-> [k \in DOMAIN r.data |->
                  [day |-> JsonNumber(r.data[k].day), price |-> JsonNumber(r.data[k].price),
                   sma20 |-> JsonOptional(r.data[k].sma20),
                   ema10 |-> JsonOptional(r.data[k].ema10)]],
     created_at |-> JsonString(r.created_at)]

\* SimulationResult.parse_raw(cached_simulation)
SimulationParseRaw(j) ==
    [id |-> j.id.val, user_id |-> j.user_id.val, asset |-> j.asset.val,
     strategy |-> j.strategy.val, timeframe |-> j.timeframe.val,
     initial_capital |-> j.initial_capital.val, final_capital |-> j.final_capital.val,
     roi |-> j.roi.val,
     data |-> [k \in DOMAIN j.data |->
                  [day |-> j.data[k].day.val, price |-> j.data[k].price.val,
                   sma20 |-> ParseOptional(j.data[k].sma20),
                   ema10 |-> ParseOptional(j.data[k].ema10)]],
     created_at |-> j.created_at.val]

\* f"simulation:{result.id}"
SimulationKey(id) == "simulation:" \o id

\* redis.setex(key, 3600, value)
SimSetex(key, value) ==
    [k \in DOMAIN sim_redis \cup {key} |-> IF k = key THEN value ELSE sim_redis[k]]

\* get_simulation with the one handler `except Exception`
RaisedByHandlerOnlyExcept(e) ==
    IF CaughtByExceptException(e)
    THEN HTTPException(500, Str(e))
    ELSE e

\* what get_simulation raises when its try block raises e:
\* `except HTTPException: raise`, then `except Exception as e: raise HTTPException(500)`
RaisedByHandler(e) ==
    IF e.class = "HTTPException" THEN e
    ELSE IF CaughtByExceptException(e) THEN HTTPException(500, Str(e))
    ELSE e

\* the response FastAPI makes of an HTTPException
ErrorResponse(e) == [status |-> e.status_code, detail |-> e.detail]

\* POST /simulations/
create_simulation ==
    /\ Uuids \ DOMAIN created # {}
    /\ \E sim \in SimApiRequests, now \in Clock, setex_ok \in BOOLEAN :
          \E r \in generate_mock_data(sim, FreshUuid, now) :
             /\ simRequest' = [endpoint |-> "create", simulation |-> sim]
             /\ IF setex_ok
                THEN /\ sim_redis' = SimSetex(SimulationKey(r.id), SimulationJson(r))
                     /\ created' = [k \in DOMAIN created \cup {r.id} |->
                                       IF k = r.id THEN r ELSE created[k]]
                     /\ simResponse' = [status |-> 200, body |-> r]
                ELSE /\ simResponse' = ErrorResponse(HTTPException(500,
                                           Str(OtherException("Connection refused"))))
                     /\ UNCHANGED <<sim_redis, created>>
    /\ UNCHANGED <<DEEPSEEK_API_KEY, OPENAI_API_KEY, notSimVars>>

\* GET /simulations/{simulation_id}
get_simulation ==
    /\ \E simulation_id \in GetIds, get_ok \in BOOLEAN :
          LET key == SimulationKey(simulation_id)
              live == key \in DOMAIN sim_redis
          IN  /\ simRequest' = [endpoint |-> "get", simulation_id |-> simulation_id,
                                get_ok |-> get_ok, live |-> live]
              /\ simResponse' =
                    IF ~get_ok
                    THEN ErrorResponse(RaisedByHandler(OtherException("Connection refused")))
                    ELSE IF live
                    THEN [status |-> 200, body |-> SimulationParseRaw(sim_redis[key])]
                    ELSE ErrorResponse(RaisedByHandler(
                             HTTPException(404, "Simulation not found")))
    /\ UNCHANGED <<sim_redis, created, DEEPSEEK_API_KEY, OPENAI_API_KEY, notSimVars>>

\* the hour of an entry is over
ExpireSimulation ==
    /\ \E key \in DOMAIN sim_redis :
          sim_redis' = [k \in DOMAIN sim_redis \ {key} |-> sim_redis[k]]
    /\ UNCHANGED <<created, simRequest, simResponse,
                   DEEPSEEK_API_KEY, OPENAI_API_KEY, notSimVars>>

SimulationsInit ==
    /\ SimulationsIdle
    /\ DEEPSEEK_API_KEY = FALSE
    /\ OPENAI_API_KEY = FALSE
    /\ FeedbackIdle
    /\ SentimentIdle
    /\ AnomalyIdle
    /\ ApiIdle
    /\ GenerateIdle
    /\ AuthIdle

SimulationsNext == create_simulation \/ get_simulation \/ ExpireSimulation

SpecSimulations == SimulationsInit /\ [][SimulationsNext]_vars

(***************************************************************************)
(* Properties of get_educational_feedback                                  *)
(***************************************************************************)
Tiers == <<"deepseek", "openai", "template">>
TierRank(t) == CHOOSE i \in DOMAIN Tiers : Tiers[i] = t

\* the provider was not configured or its call raised: it returned no result
NoResultFrom(provider) ==
    /\ provider \in Range(attempts) => provider \in raised
    /\ provider \notin Range(attempts) =>
          ~(IF provider = "deepseek" THEN DEEPSEEK_API_KEY ELSE OPENAI_API_KEY)

\* C1: whatever the provider configuration and whatever the providers do, a call
\* never leaves get_educational_feedback by an exception: every step of a running
\* call leads on to the return of a result, and the returned result is one of
\* the provider, template or apology results with at most 5 key points and at
\* most 3 improvement suggestions.
C1_AlwaysAResultWithinLimits ==
    /\ pc \in {"idle", "deepseek", "openai", "template", "except", "done"}
    /\ pc \in {"deepseek", "openai", "template", "except"} =>
          ENABLED (TryDeepSeek \/ TryOpenAI \/ UseTemplate \/ Failed)
    /\ pc = "done" =>
          /\ result.tier \in {"deepseek", "openai", "template", "apology"}
          /\ Len(result.value.key_points) <= 5
          /\ Len(result.value.improvement_suggestions) <= 3

\* a provider answered with more than 5 key points and the call returned 5 of them
C1_Witness ==
    /\ pc = "done"
    /\ result.tier = "deepseek"
    /\ Len(ExtractLists(content).key_points) > 5
    /\ Len(result.value.key_points) = 5

\* C2: within one call the tiers are entered in the order DeepSeek, OpenAI,
\* template, each at most once; a provider is called only if it is configured,
\* OpenAI only if DeepSeek returned no result, the template only if neither
\* provider returned a result; and a provider's result is the call's result,
\* with no tier entered after it.
C2_TiersStrictlyForward ==
    /\ Range(attempts) \subseteq Range(Tiers)
    /\ \A i, j \in DOMAIN attempts : i < j => TierRank(attempts[i]) < TierRank(attempts[j])
    /\ "deepseek" \in Range(attempts) => DEEPSEEK_API_KEY
    /\ "openai" \in Range(attempts) => OPENAI_API_KEY /\ NoResultFrom("deepseek")
    /\ "template" \in Range(attempts) => NoResultFrom("deepseek") /\ NoResultFrom("openai")
    /\ result.tier \in {"deepseek", "openai"} =>
          /\ pc = "done"
          /\ attempts[Len(attempts)] = result.tier
          /\ result.tier \notin raised
          /\ result.value = ParseResponse(content)

\* both providers were called and raised, and the template tier answered
C2_Witness ==
    /\ pc = "done"
    /\ attempts = Tiers
    /\ raised = {"deepseek", "openai"}
    /\ result.tier = "template"

\* how the narrative of strategy_templates names each known strategy
StrategyContext(strategy) ==
    CASE strategy = "sma_crossover" -> "Simple Moving Average (SMA) Crossover"
      [] strategy = "ema_crossover" -> "Exponential Moving Average (EMA) Crossover"
      [] strategy = "macd"          -> "Moving Average Convergence Divergence (MACD)"
      [] strategy = "rsi"           -> "Relative Strength Index (RSI)"
      [] strategy = "bollinger"     -> "Bollinger Bands"
      [] OTHER                      -> strategy

\* C3: when no provider returned a result (each unconfigured, or its call raised)
\* and the roi is a number or absent, the call returns the template result for
\* every strategy, never the apology: the narrative is non-empty and names the
\* asset and the strategy, a strategy outside the template bank gets the generic
\* narrative with the strategy string and the ROI in it, and there are 4 key
\* points and 3 suggestions.
C3_TemplateWhenNoProvider ==
    (/\ pc = "done"
     /\ NoResultFrom("deepseek")
     /\ NoResultFrom("openai")
     /\ request.performance.roi.kind \in {"num", "absent"})
    => /\ result.tier = "template"
       /\ result.value # ApologyResult
       /\ result.value.feedback # <<>>
       /\ request.asset \in Range(result.value.feedback)
       /\ StrategyContext(request.strategy) \in Range(result.value.feedback)
       /\ request.strategy \notin KnownStrategies =>
             /\ request.strategy \in Range(result.value.feedback)
             /\ (IF request.performance.roi.kind = "absent" THEN "unknown"
                 ELSE ToString(request.performance.roi.val)) \in Range(result.value.feedback)
       /\ Len(result.value.key_points) = 4
       /\ Len(result.value.improvement_suggestions) = 3

\* both providers raised, the strategy is not in the template bank and no roi was given
C3_Witness ==
    /\ pc = "done"
    /\ raised = {"deepseek", "openai"}
    /\ request.strategy \notin KnownStrategies
    /\ request.performance.roi.kind = "absent"
    /\ result.tier = "template"

\* C4: the apology (one key point, one suggestion) is returned only by a call
\* whose template tier raised; a call in which only providers raised returns a
\* provider or template result.
C4_ApologyOnlyAfterTemplateRaised ==
    /\ result.tier = "apology" =>
          /\ "template" \in raised
          /\ result.value = ApologyResult
          /\ Len(result.value.key_points) = 1
          /\ Len(result.value.improvement_suggestions) = 1
    /\ pc = "except" => "template" \in raised
    /\ (pc = "done" /\ "template" \notin raised) =>
          /\ result.tier \in {"deepseek", "openai", "template"}
          /\ result.value # ApologyResult

\* both providers raised, then the template tier raised on a non-numeric roi
C4_Witness ==
    /\ pc = "done"
    /\ raised = {"deepseek", "openai", "template"}
    /\ request.performance.roi.kind = "text"
    /\ result = [tier |-> "apology", value |-> ApologyResult]

\* how each performance sentence opens and closes
PerformedWell ==
    [open  |-> "The strategy performed well with an ROI of ",
     close |-> "%, but remember that past performance doesn't guarantee future results. Market conditions can change rapidly."]
Moderate ==
    [open  |-> "The strategy showed a positive ROI of ",
     close |-> "%, which is a moderate result. Consider how different market conditions might affect performance."]
LearningOpportunity ==
    [open  |-> "The strategy resulted in a negative ROI of ",
     close |-> "%. This provides a valuable learning opportunity to understand what factors contributed to the underperformance."]

\* the roi the template tier reads: 0 when the request gives none
RequestRoi == IF request.performance.roi.kind = "absent" THEN 0 ELSE request.performance.roi.val

\* C15: a template result's narrative is the template's narrative, a space and
\* exactly one performance sentence: the "performed well" sentence with the
\* caution for roi > 15, the "moderate" sentence for 0 < roi <= 15, the
\* learning-opportunity sentence for roi <= 0; 15 and 0 fall in the lower tier.
C15_OnePerformanceSentenceByRoi ==
    result.tier = "template" =>
        LET fb == result.value.feedback
            n == Len(fb)
            sentence == IF RequestRoi > 15 THEN PerformedWell
                        ELSE IF RequestRoi > 0 /\ RequestRoi <= 15 THEN Moderate
                        ELSE LearningOpportunity
        IN  /\ n > 4
            /\ SubSeq(fb, 1, n - 4)
                  = template_for(request.asset, request.strategy, request.timeframe,
                                 request.performance).feedback
            /\ fb[n - 3] = " "
            /\ fb[n - 2] = sentence.open
            /\ fb[n - 1] = ToString(RequestRoi)
            /\ fb[n] = sentence.close
            /\ Cardinality({k \in DOMAIN fb :
                   fb[k] \in {PerformedWell.open, Moderate.open, LearningOpportunity.open}}) = 1

\* a roi of exactly 15 got the moderate sentence
C15_Witness ==
    /\ pc = "done"
    /\ result.tier = "template"
    /\ request.performance.roi = NumRoi(15)
    /\ result.value.feedback[Len(result.value.feedback)] = Moderate.close

\* the section is a key-points or a suggestions section
Marked(section) ==
    \/ Contains(section, "key point")
    \/ Contains(section, "improvement")
    \/ Contains(section, "suggestion")

\* the sections of the response that match no marker, in order
Unmarked(sections) == SelectSeq(sections, LAMBDA section : ~Marked(section))

\* C16: the narrative of a provider result is the first section of the response
\* that is neither a key-points nor a suggestions section, and a section that
\* matches a marker is never the narrative.
C16_NarrativeIsFirstUnmarkedSection ==
    result.tier \in {"deepseek", "openai"} =>
        /\ ~Marked(result.value.feedback)
        /\ Unmarked(content) # <<>> => result.value.feedback = Unmarked(content)[1]

\* the line starts with the bullet "- "
BulletPrefixed(line) == Len(line) >= 2 /\ line[1] = "-" /\ line[2] = " "

\* the bullet-prefixed lines of a section, in order, without their "- "
BulletItems(section) ==
    LET bullets == SelectSeq(section, BulletPrefixed)
    IN  [k \in DOMAIN bullets |-> SubSeq(bullets[k], 3, Len(bullets[k]))]

\* the bullet items of the key-points sections and of the suggestions sections
BulletLists(sections) ==
    LET F[n \in 0..Len(sections)] ==
            IF n = 0 THEN [key_points |-> <<>>, improvement_suggestions |-> <<>>]
            ELSE LET acc == F[n - 1]
                     section == sections[n]
                 IN  IF Contains(section, "key point")
                     THEN [acc EXCEPT !.key_points = @ \o BulletItems(section)]
                     ELSE IF Contains(section, "improvement") \/ Contains(section, "suggestion")
                          THEN [acc EXCEPT !.improvement_suggestions = @ \o BulletItems(section)]
                          ELSE acc
    IN  F[Len(sections)]

\* C17: the items a provider result takes from the key-points and suggestions
\* sections are exactly their bullet-prefixed lines, in order, each without its
\* leading "- " (then the defaults for an empty list and the cuts to 5 and 3):
\* no line without a bullet becomes an item.
C17_ItemsAreTheBulletLines ==
    result.tier \in {"deepseek", "openai"} =>
        LET lists == BulletLists(content)
        IN  /\ result.value.key_points
                  = Take(IF lists.key_points = <<>> THEN DefaultKeyPoints
                         ELSE lists.key_points, 5)
            /\ result.value.improvement_suggestions
                  = Take(IF lists.improvement_suggestions = <<>> THEN DefaultSuggestions
                         ELSE lists.improvement_suggestions, 3)

(***************************************************************************)
(* Properties of analyze_sentiment                                         *)
(***************************************************************************)
\* the number of words of the lower-cased text that are terms of the lexicon
Occurrences(keywords, t) ==
    Cardinality({i \in DOMAIN t : Lower(t[i]) \in Range(keywords)})

\* C6: positive_count and negative_count are the numbers of whole-word
\* occurrences of the lexicon's terms in the lower-cased text, a term that
\* occurs N times counting N times.
C6_CountsEveryOccurrence ==
    analysis # NoAnalysis =>
        /\ analysis.positive_count = Occurrences(positive_keywords, text)
        /\ analysis.negative_count = Occurrences(negative_keywords, text)

\* C7: the score lies in [-1, 1]; with no keyword found it is 0 and the category
\* neutral, otherwise it is (positive_count - negative_count) / (positive_count
\* + negative_count); the category is positive exactly when the score is above
\* 1/4, negative exactly when it is below -1/4, and neutral otherwise, 1/4 and
\* -1/4 included.
C7_ScoreAndCategory ==
    analysis # NoAnalysis =>
        LET p == analysis.positive_count
            n == analysis.negative_count
            score == analysis.score
        IN  /\ score.den > 0
            /\ -score.den <= score.num /\ score.num <= score.den
            /\ (p = 0 /\ n = 0) => score = Fraction(0, 1) /\ analysis.sentiment = "neutral"
            /\ (p + n > 0) => score = Fraction(p - n, p + n)
            /\ analysis.sentiment = "positive" <=> 4 * score.num > score.den
            /\ analysis.sentiment = "negative" <=> 4 * score.num < -score.den
            /\ analysis.sentiment = "neutral"
                  <=> (-score.den <= 4 * score.num /\ 4 * score.num <= score.den)

\* five positive and three negative terms: the score is exactly 1/4, and neutral
C7_Witness ==
    /\ analysis.positive_count = 5
    /\ analysis.negative_count = 3
    /\ 4 * analysis.score.num = analysis.score.den
    /\ analysis.sentiment = "neutral"

(***************************************************************************)
(* Properties of detect_anomalies                                          *)
(***************************************************************************)
\* python's indices of the series
Indices == 0..(Len(data) - 1)

ScoreAt(i) == report.scores[i + 1]

\* the sum of f over the indices lo..hi of the series
RECURSIVE SumOver(_, _, _)
SumOver(f(_), lo, hi) == IF lo > hi THEN 0 ELSE f(data[hi + 1]) + SumOver(f, lo, hi - 1)

Same(x) == x
Squared(x) == x * x

\* C8: for a window size above 0, every index below the window size has score
\* 0.0 and is no anomaly; a series shorter than the window gets the report of
\* one 0.0 per point, no anomalies and threshold 3.0.
C8_NoScoreBeforeAWindow ==
    (report # NoReport /\ window_size > 0) =>
        /\ \A i \in Indices : i < window_size =>
              /\ i + 1 \in DOMAIN report.scores
              /\ ScoreAt(i) = ZeroScore
              /\ i \notin Range(report.anomalies)
        /\ Len(data) < window_size =>
              /\ report.scores = [k \in 1..Len(data) |-> ZeroScore]
              /\ report.anomalies = <<>>
              /\ report.threshold = 3

\* a series of two points, shorter than its window of three, was reported
C8_Witness ==
    /\ report # NoReport
    /\ Len(data) = 2
    /\ window_size = 3
    /\ report.scores = <<ZeroScore, ZeroScore>>

\* C9: a report has one score per point, its anomalies are in-range indices in
\* strictly ascending order, an index is among them exactly when its score is
\* above 3.0, and its threshold is 3.0.
C9_AnomaliesAreTheScoresAboveThreshold ==
    report # NoReport =>
        /\ Len(report.scores) = Len(data)
        /\ Range(report.anomalies) \subseteq Indices
        /\ \A j, k \in DOMAIN report.anomalies :
              j < k => report.anomalies[j] < report.anomalies[k]
        /\ \A i \in Indices :
              i \in Range(report.anomalies) <=> ScoreAt(i).num > 9 * ScoreAt(i).den
        /\ report.threshold = 3

\* a report with two anomalies, behind two points that are none
C9_Witness ==
    /\ report # NoReport
    /\ Len(data) = 4
    /\ report.anomalies = <<2, 3>>
    /\ ScoreAt(2).num > 9 * ScoreAt(2).den
    /\ ScoreAt(3).num > 9 * ScoreAt(3).den

CoreResults(req) ==
    CASE req.endpoint = "sentiment" -> {SentimentResponse(analyze_sentiment(req.text))}
      [] req.endpoint = "anomalies" -> {detect_anomalies(req.data, req.window_size)}
      [] req.endpoint = "feedback"  ->
            {get_educational_feedback(req.asset, req.strategy, req.timeframe,
                                      req.performance, ds, oa) :
                ds \in ApiOutcomes, oa \in ApiOutcomes}

\* C5: a response served from the cache is a result the core function computes
\* for the full input of the request it answers, and the entry it was read from
\* was written for a request with that same input.
C5_WarmCacheEqualsCold ==
    lastResponse.source = "cache" =>
        /\ lastResponse.from = lastRequest
        /\ lastResponse.body \in CoreResults(lastRequest)

(***************************************************************************)
(* Properties of generate_mock_data                                        *)
(***************************************************************************)
\* the mean of the n prices before python index idx, rounded to 2 decimals
MeanBefore(points, idx, n) == RoundDiv(Sum(PricesBefore(points, idx, n)), n)

\* C11: wherever a point carries an indicator and has that many points before
\* it, its SMA is the mean of the 20 prices just before it and its EMA the mean
\* of the 10 prices just before it, the point itself left out, rounded to 2
\* decimals.
C11_IndicatorsAreTrailingMeans ==
    \A k \in DOMAIN sim_data :
        LET idx == k - 1
            point == sim_data[k]
        IN  /\ (point.sma20.some /\ idx >= 20) =>
                  point.sma20.val = MeanBefore(sim_data, idx, 20)
            /\ (point.ema10.some /\ idx >= 10) =>
                  point.ema10.val = MeanBefore(sim_data, idx, 10)

\* C12: in every series, finished or under construction, a point carries an SMA
\* exactly when its day is 20 or more and an EMA exactly when its day is 10 or
\* more.
C12_IndicatorsPresentFromTheirDay ==
    /\ \A k \in DOMAIN sim_data :
          /\ sim_data[k].sma20.some <=> sim_data[k].day >= 20
          /\ sim_data[k].ema10.some <=> sim_data[k].day >= 10
    /\ \A k \in DOMAIN sim_result.data :
          /\ sim_result.data[k].sma20.some <=> sim_result.data[k].day >= 20
          /\ sim_result.data[k].ema10.some <=> sim_result.data[k].day >= 10

\* a returned series whose days 9 and 19 lack the indicator that days 10 and 20 carry
C12_Witness ==
    /\ gen_pc = "done"
    /\ Len(sim_result.data) >= 20
    /\ sim_result.data[9].ema10 = None /\ sim_result.data[10].ema10.some
    /\ sim_result.data[19].sma20 = None /\ sim_result.data[20].sma20.some

\* C13: a call for a timeframe n > 0 returns exactly n points, their days are
\* 1, 2, ..., n in order, and every price is above 0 (the walk stays at or above
\* the floor 0.1), whatever the asset, the strategy, the capital and the draws.
C13_DaysInOrderPricesPositive ==
    /\ gen_pc \in {"loop", "done"} =>
          /\ current_price >= 100
          /\ Len(sim_data) = gen_i
          /\ gen_i <= simulation.timeframe
          /\ \A k \in DOMAIN sim_data : sim_data[k].day = k /\ sim_data[k].price > 0
    /\ gen_pc = "done" =>
          /\ simulation.timeframe > 0
          /\ Len(sim_result.data) = simulation.timeframe
          /\ \A k \in DOMAIN sim_result.data :
                /\ sim_result.data[k].day = k
                /\ sim_result.data[k].price > 0

\* the longest call returned, after draws that took the price down
C13_Witness ==
    /\ gen_pc = "done"
    /\ simulation.timeframe = MaxDays
    /\ Len(sim_result.data) = MaxDays
    /\ moves = MaxMoves
    /\ sim_result.data[MaxDays].day = MaxDays
    /\ sim_result.data[MaxDays].price < sim_result.data[1].price

\* the range the claim gives each strategy, in 1/100000; a strategy outside the
\* table gets the one value 0.1
PerformanceRange(strategy) ==
    CASE strategy = "sma_crossover" -> [lo |-> -10000, hi |-> 30000]
      [] strategy = "ema_crossover" -> [lo |-> -5000,  hi |-> 25000]
      [] strategy = "macd"          -> [lo |-> -15000, hi |-> 35000]
      [] strategy = "rsi"           -> [lo |-> -20000, hi |-> 40000]
      [] strategy = "bollinger"     -> [lo |-> -10000, hi |-> 30000]
      [] OTHER                      -> [lo |-> 10000,  hi |-> 10000]

\* |x|
Abs(x) == IF x < 0 THEN -x ELSE x

C18_ProviderErrorsKeepTheirStatus ==
    authRequest # NoAuthRequest =>
        /\ authRequest.outcome.kind = "error" =>
              IF authRequest.endpoint = "login"
              THEN authResponse.status = 401 /\ authResponse.detail = "Invalid credentials"
              ELSE authResponse.status = 400
                   /\ authResponse.detail = authRequest.outcome.message
        /\ authResponse.status = 500 => authRequest.outcome.kind = "raises"

KeyOf(req) ==
    CASE req.endpoint = "sentiment" -> SentimentKey(req)
      [] req.endpoint = "anomalies" -> AnomaliesKey(req)
      [] req.endpoint = "feedback"  -> FeedbackKey(req)

\* C20: every request of the three endpoints is answered with an HTTP
\* response, 200 with a body or 500 without one; when redis.get raised, or
\* redis.setex raised after the result was computed, the answer is 500, the
\* computed result is not in it, and nothing was cached.
C20_EveryExceptionBecomesA500 ==
    lastRequest # NoApiRequest =>
        /\ lastResponse.status \in {200, 500}
        /\ lastResponse.status = 200 <=> lastFault = "none"
        /\ lastResponse.status = 200 => "body" \in DOMAIN lastResponse
        /\ lastFault # "none" =>
              /\ lastResponse.status = 500
              /\ "body" \notin DOMAIN lastResponse
        /\ lastFault = "setex" => KeyOf(lastRequest) \notin DOMAIN redis

\* a feedback request whose setex raised after the feedback was computed
C20_Witness ==
    /\ lastRequest.endpoint = "feedback"
    /\ lastFault = "setex"
    /\ lastResponse = InternalServerError
    /\ served = MaxRequests

=============================================================================
